---------------------------- MODULE Spec2Model ----------------------------
(***************************************************************************)
(* A model of backend/main.py of geo-swipe-lab: the range-serving reader   *)
(* (/api/cog), the tile endpoints, the upload / upload-local pipeline and  *)
(* the bounded worker pool that runs process_file_sync.                    *)
(*                                                                         *)
(* Text (file names, header values) is modelled as sequences of            *)
(* one-character strings, so that the substring, prefix, suffix and        *)
(* number-parsing code is modelled by what it does.                        *)
(***************************************************************************)
EXTENDS Integers, Sequences, FiniteSets, TLC

VARIABLES
    processed,  \* PROCESSED_DIR: file name -> [size, complete]
    req,        \* the reader's current request: [endpoint, method, name, range]
    resp,       \* the response the handler produced for req
    fsops,      \* the filesystem calls the handler made for req, in order
    gen,        \* the streaming body generator of resp
    incoming,   \* UPLOAD_DIR: file name -> "partial" | "full"
    jobs,       \* the upload and upload-local requests made so far, in order
    queue,      \* the executor's work queue: indices of jobs, oldest first
    running,    \* the jobs a pool worker is executing
    tempdirs    \* the jobs whose tempfile.mkdtemp() directory exists

serveVars == <<req, resp, fsops, gen>>

jobVars == <<incoming, jobs, queue, running, tempdirs>>

vars == <<processed, req, resp, fsops, gen, incoming, jobs, queue, running, tempdirs>>

----------------------------------------------------------------------------
(* Bounds of the model *)

\* File sizes and range offsets are taken around 0..MaxChunks multiples of
\* the reader's chunk size.
MaxChunks == 2

\* The number of upload and upload-local requests of a behaviour of Spec
MaxJobs == 2

\* The number of requests of a behaviour of SpecPool
MaxPoolJobs == 3

\* The number of upload and upload-local requests of a behaviour of SpecLoop
MaxLoopJobs == 2

----------------------------------------------------------------------------
(* Text helpers *)

Min(a, b) == IF a <= b THEN a ELSE b

\* str.lower() on the characters the model uses
LowerChar(c) ==
    CASE c = "A" -> "a" [] c = "B" -> "b" [] c = "C" -> "c"
      [] c = "D" -> "d" [] c = "E" -> "e" [] c = "F" -> "f"
      [] c = "G" -> "g" [] c = "H" -> "h" [] c = "I" -> "i"
      [] c = "J" -> "j" [] c = "K" -> "k" [] c = "L" -> "l"
      [] c = "M" -> "m" [] c = "N" -> "n" [] c = "O" -> "o"
      [] c = "P" -> "p" [] c = "Q" -> "q" [] c = "R" -> "r"
      [] c = "S" -> "s" [] c = "T" -> "t" [] c = "U" -> "u"
      [] c = "V" -> "v" [] c = "W" -> "w" [] c = "X" -> "x"
      [] c = "Y" -> "y" [] c = "Z" -> "z"
      [] OTHER -> c

Lower(s) == [i \in 1..Len(s) |-> LowerChar(s[i])]

\* s.startswith(p)
StartsWith(s, p) == Len(p) <= Len(s) /\ SubSeq(s, 1, Len(p)) = p

\* s.endswith(p)
EndsWith(s, p) ==
    Len(p) <= Len(s) /\ SubSeq(s, Len(s) - Len(p) + 1, Len(s)) = p

\* p in s
Contains(s, p) ==
    \E i \in 0..(Len(s) - Len(p)) : SubSeq(s, i + 1, i + Len(p)) = p

\* str.rfind(c): the last index of c in s, 0 when there is none
RFind(s, c) ==
    LET hits == {i \in 1..Len(s) : s[i] = c}
    IN  IF hits = {} THEN 0 ELSE CHOOSE i \in hits : \A j \in hits : j <= i

\* Path(p).name: the final path component
PathName(p) == SubSeq(p, RFind(p, "/") + 1, Len(p))

\* Path(p).suffix: from the last dot of the name, unless the dot leads or ends it
PathSuffix(p) ==
    LET n == PathName(p)
        i == RFind(n, ".")
    IN  IF 1 < i /\ i < Len(n) THEN SubSeq(n, i, Len(n)) ELSE <<>>

\* Path(p).stem
PathStem(p) ==
    LET n == PathName(p)
        i == RFind(n, ".")
    IN  IF 1 < i /\ i < Len(n) THEN SubSeq(n, 1, i - 1) ELSE n

DigitChars == <<"0", "1", "2", "3", "4", "5", "6", "7", "8", "9">>

IsDigit(c) == \E d \in 1..10 : DigitChars[d] = c

DigitVal(c) == (CHOOSE d \in 1..10 : DigitChars[d] = c) - 1

\* str(n) for n >= 0
RECURSIVE Str(_)
Str(n) ==
    IF n < 10 THEN <<DigitChars[n + 1]>>
    ELSE Append(Str(n \div 10), DigitChars[(n % 10) + 1])

\* int(s) for a string of digits
RECURSIVE ParseInt(_)
ParseInt(s) ==
    IF Len(s) = 0 THEN 0
    ELSE 10 * ParseInt(SubSeq(s, 1, Len(s) - 1)) + DigitVal(s[Len(s)])

\* the longest run of digits of s that starts at index i (may be empty)
RECURSIVE DigitRun(_, _)
DigitRun(s, i) ==
    IF i <= Len(s) /\ IsDigit(s[i]) THEN <<s[i]>> \o DigitRun(s, i + 1)
    ELSE <<>>

----------------------------------------------------------------------------
(* Text constants of the program *)

S_dotdot == <<".", ".">>
S_slash == <<"/">>
S_ovr == <<".", "o", "v", "r">>
S_tif == <<".", "t", "i", "f">>
S_tiff == <<".", "t", "i", "f", "f">>
S_pmtiles == <<".", "p", "m", "t", "i", "l", "e", "s">>
S_bytes_eq == <<"b", "y", "t", "e", "s", "=">>
S_bytes_sp == <<"b", "y", "t", "e", "s", " ">>
S_bytes == <<"b", "y", "t", "e", "s">>
S_image_tiff == <<"i", "m", "a", "g", "e", "/", "t", "i", "f", "f">>
S_octet_stream == <<"a", "p", "p", "l", "i", "c", "a", "t", "i", "o", "n", "/", "o", "c", "t", "e", "t", "-", "s", "t", "r", "e", "a", "m">>

\* "no header" / "no value": the empty text
None == <<>>

\* A directory with no file in it
EmptyDir == [n \in {} |-> None]

\* The directory fs with file f written at name
WriteFile(fs, name, f) ==
    [n \in DOMAIN fs \cup {name} |-> IF n = name THEN f ELSE fs[n]]

\* Path.unlink(missing_ok=True)
Unlink(fs, name) == [n \in DOMAIN fs \ {name} |-> fs[n]]

----------------------------------------------------------------------------
(* The range-serving reader: get_cog_file *)

chunk_size == 64 * 1024

\* re.match(r'bytes=(\d+)-(\d*)', range): a match anchored at the start only
RangeMatch(range) ==
    LET g1 == DigitRun(range, Len(S_bytes_eq) + 1)
        dash == Len(S_bytes_eq) + Len(g1) + 1
    IN  IF /\ StartsWith(range, S_bytes_eq)
           /\ Len(g1) > 0
           /\ dash <= Len(range)
           /\ range[dash] = "-"
        THEN [matched |-> TRUE, g1 |-> g1, g2 |-> DigitRun(range, dash + 1)]
        ELSE [matched |-> FALSE, g1 |-> <<>>, g2 |-> <<>>]

\* raise HTTPException(status_code, detail): FastAPI answers {"detail": ...}
HTTPException(status) ==
    [status |-> status, content_length |-> None, content_range |-> None,
     accept_ranges |-> None, content_type |-> None, body |-> "detail",
     start |-> 0, length |-> 0, layers |-> <<>>]

Response(status, cl, cr, ct, body, start, length) ==
    [status |-> status, content_length |-> cl, content_range |-> cr,
     accept_ranges |-> S_bytes, content_type |-> ct, body |-> body,
     start |-> start, length |-> length, layers |-> <<>>]

\* the traversal check shared by the three readers
IsTraversal(filename) ==
    Contains(filename, S_dotdot) \/ StartsWith(filename, S_slash)

\* file_path.exists() for PROCESSED_DIR / filename
Exists(fs, filename) == filename \in DOMAIN fs

\* RangeBranch without the clamp of end to file_size - 1
RangeBranch_NoClamp(file_size, content_type, m) ==
    LET start == ParseInt(m.g1)
        end == IF Len(m.g2) > 0 THEN ParseInt(m.g2) ELSE file_size - 1
        content_length == end - start + 1
    IN  IF start > end \/ start >= file_size
        THEN HTTPException(416)
        ELSE Response(206, Str(content_length),
                      S_bytes_sp \o Str(start) \o <<"-">> \o Str(end)
                          \o <<"/">> \o Str(file_size),
                      content_type, "range", start, content_length)

\* lines 116-155: the Range branch, taken when the header is present and matches
RangeBranch(file_size, content_type, m) ==
    LET start == ParseInt(m.g1)
        end0 == IF Len(m.g2) > 0 THEN ParseInt(m.g2) ELSE file_size - 1
        end == Min(end0, file_size - 1)
        content_length == end - start + 1
    IN  IF start > end \/ start >= file_size
        THEN HTTPException(416)
        ELSE Response(206, Str(content_length),
                      S_bytes_sp \o Str(start) \o <<"-">> \o Str(end)
                          \o <<"/">> \o Str(file_size),
                      content_type, "range", start, content_length)

\* lines 157-184: HEAD, then the plain GET
NoRangeBranch(method, file_size, content_type) ==
    IF method = "HEAD"
    THEN Response(200, Str(file_size), None, content_type, "none", 0, 0)
    ELSE Response(200, Str(file_size), None, content_type, "full", 0, file_size)

\* get_cog_file looking for the file before it tests for an .ovr name
get_cog_file_ExistsFirst(fs, method, filename, range) ==
    IF IsTraversal(filename)
    THEN [resp |-> HTTPException(400), fsops |-> <<>>]
    ELSE IF ~Exists(fs, filename)
    THEN [resp |-> HTTPException(404), fsops |-> <<"exists">>]
    ELSE IF Lower(PathSuffix(filename)) \notin {S_tif, S_tiff, S_pmtiles}
    THEN [resp |-> HTTPException(400), fsops |-> <<"exists">>]
    ELSE IF EndsWith(Lower(filename), S_ovr)
    THEN [resp |-> HTTPException(404), fsops |-> <<"exists">>]
    ELSE
        LET file_size == fs[filename].size
            content_type ==
                IF Lower(PathSuffix(filename)) = S_pmtiles
                THEN S_octet_stream ELSE S_image_tiff
            m == RangeMatch(range)
        IN  [resp |-> IF range # None /\ m.matched
                      THEN RangeBranch(file_size, content_type, m)
                      ELSE NoRangeBranch(method, file_size, content_type),
             fsops |-> <<"exists", "stat">>]

\* The whole handler: the response and the filesystem calls it made.
get_cog_file(fs, method, filename, range) ==
    IF IsTraversal(filename)
    THEN [resp |-> HTTPException(400), fsops |-> <<>>]
    ELSE IF EndsWith(Lower(filename), S_ovr)
    THEN [resp |-> HTTPException(404), fsops |-> <<>>]
    ELSE IF ~Exists(fs, filename)
    THEN [resp |-> HTTPException(404), fsops |-> <<"exists">>]
    ELSE IF Lower(PathSuffix(filename)) \notin {S_tif, S_tiff, S_pmtiles}
    THEN [resp |-> HTTPException(400), fsops |-> <<"exists">>]
    ELSE
        LET file_size == fs[filename].size
            content_type ==
                IF Lower(PathSuffix(filename)) = S_pmtiles
                THEN S_octet_stream ELSE S_image_tiff
            m == RangeMatch(range)
        IN  [resp |-> IF range # None /\ m.matched
                      THEN RangeBranch(file_size, content_type, m)
                      ELSE NoRangeBranch(method, file_size, content_type),
             fsops |-> <<"exists", "stat">>]

----------------------------------------------------------------------------
(* The body generators of get_cog_file *)

\* f.read(n) at position pos of a file of the given size: the bytes left, at most n
ReadLen(size, pos, n) ==
    IF size - pos <= 0 THEN 0 ELSE Min(n, size - pos)

GenIdle ==
    [pc |-> "idle", name |-> None, pos |-> 0, remaining |-> 0, chunks |-> <<>>]

\* The generator a streaming response holds before its first chunk is asked for.
GenFor(filename, r) ==
    IF r.body \in {"range", "full"}
    THEN [pc |-> r.body, name |-> filename, pos |-> -1,
          remaining |-> r.length, chunks |-> <<>>]
    ELSE GenIdle

\* iter_file_range reading a whole chunk however little remains
iter_file_range_FullChunk(g, file_size, start) ==
    IF g.pos < 0
    THEN [g EXCEPT !.pos = start]
    ELSE IF g.remaining > 0
    THEN LET n == ReadLen(file_size, g.pos, chunk_size)
         IN  IF n = 0
             THEN [g EXCEPT !.pc = "done"]
             ELSE [g EXCEPT !.pos = g.pos + n,
                            !.remaining = g.remaining - n,
                            !.chunks = Append(g.chunks, [off |-> g.pos, len |-> n])]
    ELSE [g EXCEPT !.pc = "done"]

\* iter_file_range, lines 134-145: open and seek on the first call, then one
\* loop iteration per call.  A chunk is recorded as the file offsets it holds.
iter_file_range(g, file_size, start) ==
    IF g.pos < 0
    THEN [g EXCEPT !.pos = start]
    ELSE IF g.remaining > 0
    THEN LET read_size == Min(chunk_size, g.remaining)
             n == ReadLen(file_size, g.pos, read_size)
         IN  IF n = 0
             THEN [g EXCEPT !.pc = "done"]
             ELSE [g EXCEPT !.pos = g.pos + n,
                            !.remaining = g.remaining - n,
                            !.chunks = Append(g.chunks, [off |-> g.pos, len |-> n])]
    ELSE [g EXCEPT !.pc = "done"]

\* iter_file, lines 168-175
iter_file(g, file_size) ==
    IF g.pos < 0
    THEN [g EXCEPT !.pos = 0]
    ELSE LET n == ReadLen(file_size, g.pos, chunk_size)
         IN  IF n = 0
             THEN [g EXCEPT !.pc = "done"]
             ELSE [g EXCEPT !.pos = g.pos + n,
                            !.remaining = g.remaining - n,
                            !.chunks = Append(g.chunks, [off |-> g.pos, len |-> n])]

----------------------------------------------------------------------------
(* The tile endpoints: get_xyz_tile and get_tile_info *)

TileResponse(status, body) ==
    [status |-> status, content_length |-> None, content_range |-> None,
     accept_ranges |-> None, content_type |-> None, body |-> body,
     start |-> 0, length |-> 0, layers |-> <<>>]

\* get_xyz_tile looking for the file before it checks the name
get_xyz_tile_ExistsFirst(fs, url, outcome) ==
    IF ~Exists(fs, url)
    THEN [resp |-> HTTPException(404), fsops |-> <<"exists">>]
    ELSE IF IsTraversal(url)
    THEN [resp |-> HTTPException(400), fsops |-> <<"exists">>]
    ELSE IF Lower(PathSuffix(url)) \notin {S_tif, S_tiff}
    THEN [resp |-> HTTPException(400), fsops |-> <<"exists">>]
    ELSE [resp |-> CASE outcome = "ok" -> TileResponse(200, "png")
                     [] outcome = "outside" -> TileResponse(200, "transparent_png")
                     [] OTHER -> HTTPException(500),
          fsops |-> <<"exists", "open">>]

\* get_xyz_tile without its "except TileOutsideBounds" clause
get_xyz_tile_NoBoundsCase(fs, url, outcome) ==
    IF IsTraversal(url)
    THEN [resp |-> HTTPException(400), fsops |-> <<>>]
    ELSE IF ~Exists(fs, url)
    THEN [resp |-> HTTPException(404), fsops |-> <<"exists">>]
    ELSE IF Lower(PathSuffix(url)) \notin {S_tif, S_tiff}
    THEN [resp |-> HTTPException(400), fsops |-> <<"exists">>]
    ELSE [resp |-> IF outcome = "ok" THEN TileResponse(200, "png")
                   ELSE HTTPException(500),
          fsops |-> <<"exists", "open">>]

\* outcome is what TilerReader(...).tile(x, y, z) and render do for the file
\* and tile asked for: "ok", "outside" (TileOutsideBounds) or "error".
get_xyz_tile(fs, url, outcome) ==
    IF IsTraversal(url)
    THEN [resp |-> HTTPException(400), fsops |-> <<>>]
    ELSE IF ~Exists(fs, url)
    THEN [resp |-> HTTPException(404), fsops |-> <<"exists">>]
    ELSE IF Lower(PathSuffix(url)) \notin {S_tif, S_tiff}
    THEN [resp |-> HTTPException(400), fsops |-> <<"exists">>]
    ELSE [resp |-> CASE outcome = "ok" -> TileResponse(200, "png")
                     [] outcome = "outside" -> TileResponse(200, "transparent_png")
                     [] OTHER -> HTTPException(500),
          fsops |-> <<"exists", "open">>]

\* outcome is what TilerReader(...).info() does: "ok" or "error".
get_tile_info(fs, url, outcome) ==
    IF IsTraversal(url)
    THEN [resp |-> HTTPException(400), fsops |-> <<>>]
    ELSE IF ~Exists(fs, url)
    THEN [resp |-> HTTPException(404),
          fsops |-> <<"exists", "exists", "iterdir">>]
    ELSE [resp |-> IF outcome = "ok" THEN TileResponse(200, "info")
                   ELSE HTTPException(500),
          fsops |-> <<"exists", "exists", "open">>]

----------------------------------------------------------------------------
(* Requests made of the readers *)

N_a_tif == <<"a", ".", "t", "i", "f">>
N_A_TIFF == <<"A", ".", "T", "I", "F", "F">>
N_c_pmtiles == <<"c", ".", "p", "m", "t", "i", "l", "e", "s">>
N_b_geojson == <<"b", ".", "g", "e", "o", "j", "s", "o", "n">>
N_a_tif_ovr == <<"a", ".", "t", "i", "f", ".", "o", "v", "r">>
N_m_tif == <<"m", ".", "t", "i", "f">>
N_up_s_tif == <<".", ".", "/", "s", ".", "t", "i", "f">>
N_abs_e_tif == <<"/", "e", ".", "t", "i", "f">>
N_a_dd_tif == <<"a", ".", ".", "t", "i", "f">>
N_up_n_tif == <<".", ".", "/", "n", ".", "t", "i", "f">>

ServeNames ==
    {N_a_tif, N_A_TIFF, N_c_pmtiles, N_b_geojson, N_a_tif_ovr, N_m_tif,
     N_up_s_tif, N_abs_e_tif, N_a_dd_tif, N_up_n_tif}

\* The paths that exist, as the readers would resolve them from PROCESSED_DIR;
\* some of them lie outside it.
ServeExisting ==
    {N_a_tif, N_A_TIFF, N_c_pmtiles, N_b_geojson, N_a_tif_ovr,
     N_up_s_tif, N_abs_e_tif, N_a_dd_tif}

\* file sizes and offsets: around the multiples of the chunk size
Offsets ==
    {n \in {k * chunk_size + d : k \in 0..MaxChunks, d \in {-1, 0, 1}} : n >= 0}

\* Range headers: absent, bytes=<start>-[<end>], and texts the pattern rejects
RangeHeaders ==
    {None}
    \cup {S_bytes_eq \o Str(a) \o <<"-">> : a \in Offsets}
    \cup {S_bytes_eq \o Str(a) \o <<"-">> \o Str(b) : a \in Offsets, b \in Offsets}
    \cup {<<"b", "y", "t", "e", "s", "=", "-", "5", "0", "0">>, <<"i", "t", "e", "m", "s", "=", "0", "-", "9">>, <<"b", "y", "t", "e", "s", "=", "0", "-", "9", ",", "2", "0", "-", "2", "9">>}

NoReq == [endpoint |-> "none", method |-> "none", name |-> None, range |-> None]

NoResp == TileResponse(0, "none")

----------------------------------------------------------------------------
(* The readers as a state machine: one request at a time, its body streamed *)

InitServe ==
    /\ \E sz \in Offsets :
          processed = [n \in ServeExisting |-> [size |-> sz, complete |-> TRUE]]
    /\ req = NoReq
    /\ resp = NoResp
    /\ fsops = <<>>
    /\ gen = GenIdle
    /\ incoming = EmptyDir
    /\ jobs = <<>>
    /\ queue = <<>>
    /\ running = {}
    /\ tempdirs = {}

\* GET|HEAD /api/cog/{filename}
CogRequest ==
    /\ req = NoReq
    /\ \E method \in {"GET", "HEAD"}, filename \in ServeNames, range \in RangeHeaders :
          LET h == get_cog_file(processed, method, filename, range)
          IN  /\ req' = [endpoint |-> "cog", method |-> method,
                         name |-> filename, range |-> range]
              /\ resp' = h.resp
              /\ fsops' = h.fsops
              /\ gen' = GenFor(filename, h.resp)
    /\ UNCHANGED <<processed, jobVars>>

\* GET /api/tiles/{z}/{x}/{y}.png?url=
TileRequest ==
    /\ req = NoReq
    /\ \E url \in ServeNames, outcome \in {"ok", "outside", "error"} :
          LET h == get_xyz_tile(processed, url, outcome)
          IN  /\ req' = [endpoint |-> "tiles", method |-> "GET",
                         name |-> url, range |-> None,
                         outcome |-> outcome]
              /\ resp' = h.resp
              /\ fsops' = h.fsops
    /\ gen' = GenIdle
    /\ UNCHANGED <<processed, jobVars>>

\* GET /api/tiles/info?url=
TileInfoRequest ==
    /\ req = NoReq
    /\ \E url \in ServeNames, outcome \in {"ok", "error"} :
          LET h == get_tile_info(processed, url, outcome)
          IN  /\ req' = [endpoint |-> "info", method |-> "GET",
                         name |-> url, range |-> None]
              /\ resp' = h.resp
              /\ fsops' = h.fsops
    /\ gen' = GenIdle
    /\ UNCHANGED <<processed, jobVars>>

\* The server asks the 206 response's generator for its next chunk.
RangeBodyStep ==
    /\ gen.pc = "range"
    /\ gen' = iter_file_range(gen, processed[gen.name].size, resp.start)
    /\ fsops' = IF gen.pos < 0 THEN Append(fsops, "open") ELSE fsops
    /\ UNCHANGED <<processed, req, resp, jobVars>>

\* The server asks the 200 response's generator for its next chunk.
FullBodyStep ==
    /\ gen.pc = "full"
    /\ gen' = iter_file(gen, processed[gen.name].size)
    /\ fsops' = IF gen.pos < 0 THEN Append(fsops, "open") ELSE fsops
    /\ UNCHANGED <<processed, req, resp, jobVars>>

\* The response has been delivered whole; the reader takes the next request.
Delivered ==
    /\ req # NoReq
    /\ gen.pc \in {"idle", "done"}
    /\ req' = NoReq
    /\ resp' = NoResp
    /\ fsops' = <<>>
    /\ gen' = GenIdle
    /\ UNCHANGED <<processed, jobVars>>

NextServe ==
    \/ Delivered
    \/ CogRequest
    \/ TileRequest
    \/ TileInfoRequest
    \/ RangeBodyStep
    \/ FullBodyStep

SpecServe == InitServe /\ [][NextServe]_vars

\* The server iterates a streaming body until the generator is exhausted.
SpecServeFair ==
    InitServe /\ [][NextServe]_vars /\ WF_vars(RangeBodyStep) /\ WF_vars(FullBodyStep)

----------------------------------------------------------------------------
(* Properties of the readers *)

\* The names that pass the traversal, existence and extension checks of /cog.
ServableNames == {N_a_tif, N_A_TIFF, N_c_pmtiles}

\* The header bytes=<a>-<b>, with b = -1 for an omitted end
RangeHeader(a, b) ==
    S_bytes_eq \o Str(a) \o <<"-">> \o (IF b < 0 THEN <<>> ELSE Str(b))

\* A processed directory holding one file of the given size
OneFile(name, size) == (name :> [size |-> size, complete |-> TRUE])

\* The examples of the specification on a file of 1000 bytes
C1_Examples ==
    LET fs == OneFile(N_a_tif, 1000)
        r1 == get_cog_file(fs, "GET", N_a_tif, <<"b", "y", "t", "e", "s", "=", "0", "-", "9", "9">>).resp
        r2 == get_cog_file(fs, "GET", N_a_tif, <<"b", "y", "t", "e", "s", "=", "9", "0", "0", "-", "2", "0", "0", "0">>).resp
        r3 == get_cog_file(fs, "GET", N_a_tif, <<"b", "y", "t", "e", "s", "=", "1", "0", "0", "0", "-", "1", "0", "0", "5">>).resp
        r4 == get_cog_file(fs, "GET", N_a_tif, None).resp
    IN  /\ r1.status = 206
        /\ r1.content_range = <<"b", "y", "t", "e", "s", " ", "0", "-", "9", "9", "/", "1", "0", "0", "0">>
        /\ r1.content_length = <<"1", "0", "0">>
        /\ r2.status = 206
        /\ r2.content_range = <<"b", "y", "t", "e", "s", " ", "9", "0", "0", "-", "9", "9", "9", "/", "1", "0", "0", "0">>
        /\ r2.content_length = <<"1", "0", "0">>
        /\ r3.status = 416
        /\ r4.status = 200
        /\ r4.content_length = <<"1", "0", "0", "0">>

\* C1: a GET on /cog of an existing servable file of size N answers 200 with
\* Content-Length N when there is no Range header; with Range bytes=a-[b] the
\* end is clamped to N-1 (an omitted end is N-1), the answer is 416 exactly when
\* a > clamped end or a >= N, and otherwise 206 with Content-Range
\* "bytes a-end/N", Content-Length end-a+1 and Accept-Ranges bytes.
C1_RangeSemantics ==
    /\ C1_Examples
    /\ (req.endpoint = "cog" /\ req.method = "GET" /\ req.name \in ServableNames) =>
          LET N == processed[req.name].size
          IN  /\ req.range = None =>
                    /\ resp.status = 200
                    /\ resp.content_length = Str(N)
              /\ \A a \in Offsets, b \in Offsets \cup {-1} :
                    req.range = RangeHeader(a, b) =>
                        LET end == IF b < 0 THEN N - 1 ELSE Min(b, N - 1)
                        IN  IF a > end \/ a >= N
                            THEN resp.status = 416
                            ELSE /\ resp.status = 206
                                 /\ resp.content_range =
                                        S_bytes_sp \o Str(a) \o <<"-">> \o Str(end)
                                            \o <<"/">> \o Str(N)
                                 /\ resp.content_length = Str(end - a + 1)
                                 /\ resp.accept_ranges = S_bytes

\* A 206 whose requested end lay beyond the file and was clamped
C1_Witness ==
    /\ req.endpoint = "cog"
    /\ req.method = "GET"
    /\ req.name = N_a_tif
    /\ processed[N_a_tif].size = chunk_size + 1
    /\ req.range = RangeHeader(1, 2 * chunk_size)
    /\ resp.status = 206
    /\ resp.content_length = Str(chunk_size)

RECURSIVE SumLen(_)
SumLen(chunks) ==
    IF chunks = <<>> THEN 0 ELSE chunks[1].len + SumLen(Tail(chunks))

\* What holds of the chunks of a 206 body while and after it is streamed
C2_Chunks ==
    (req.endpoint = "cog" /\ resp.status = 206) =>
        LET cs == gen.chunks
            advertised == ParseInt(resp.content_length)
        IN  /\ \A i \in 1..Len(cs) : 0 < cs[i].len /\ cs[i].len <= 64 * 1024
            /\ \A i \in 1..Len(cs) :
                  cs[i].off = IF i = 1 THEN resp.start
                              ELSE cs[i - 1].off + cs[i - 1].len
            /\ \A i \in 1..Len(cs) :
                  cs[i].off + cs[i].len <= processed[req.name].size
            /\ SumLen(cs) <= advertised
            /\ gen.pc = "done" =>
                  /\ SumLen(cs) = advertised
                  /\ advertised = resp.length

\* C2: for every 206 response on a file that is not modified, the body
\* generator terminates and yields exactly end-start+1 bytes (the advertised
\* Content-Length), the file's bytes at offsets start..end in order, in
\* chunks of at most 64 KiB.
C2_RangeBody ==
    /\ []C2_Chunks
    /\ (req.endpoint = "cog" /\ resp.status = 206) ~> (gen.pc = "done")

\* A 206 body of more than two chunks has been streamed whole
C2_Witness ==
    /\ req.endpoint = "cog"
    /\ resp.status = 206
    /\ gen.pc = "done"
    /\ Len(gen.chunks) >= 3
    /\ gen.chunks[Len(gen.chunks)].len < chunk_size

\* C3 as stated: every HEAD on /cog that passes the traversal, existence and
\* extension checks answers 200 with the full Content-Length and no body,
\* with or without a Range header.
C3_HeadIsFullLength ==
    (req.endpoint = "cog" /\ req.method = "HEAD" /\ req.name \in ServableNames) =>
        /\ resp.status = 200
        /\ resp.content_length = Str(processed[req.name].size)
        /\ resp.body = "none"

\* The name contains ".." or starts with "/"
IsTraversalName(name) ==
    \/ \E i \in 1..(Len(name) - 1) : name[i] = "." /\ name[i + 1] = "."
    \/ (Len(name) > 0 /\ name[1] = "/")

\* C9: /cog, the tile endpoint and the tile-info endpoint answer 400 to every
\* request whose file name contains ".." or starts with "/", and make no
\* filesystem call for it, whether or not the target exists.
C9_TraversalRejectedFirst ==
    (req.endpoint \in {"cog", "tiles", "info"} /\ IsTraversalName(req.name)) =>
        /\ resp.status = 400
        /\ fsops = <<>>

\* A tile request for an existing raster outside the directory was rejected
C9_Witness ==
    /\ req.endpoint = "tiles"
    /\ req.name = N_up_s_tif
    /\ Exists(processed, req.name)
    /\ resp.status = 400
    /\ fsops = <<>>

----------------------------------------------------------------------------
(* The conversion pipeline: names and classification *)

S_shp == <<".", "s", "h", "p">>
S_geojson == <<".", "g", "e", "o", "j", "s", "o", "n">>
S_json == <<".", "j", "s", "o", "n">>
S_zip == <<".", "z", "i", "p">>
S_underscore == <<"_">>
S_uuid_head == <<"0", "0", "0", "0", "0", "0", "0">>
S_uuid_tail == <<"-", "0", "0", "0", "0", "-", "4", "0", "0", "0", "-", "8", "0", "0", "0", "-", "0", "0", "0", "0", "0", "0", "0", "0", "0", "0", "0">>

max_workers == 2

is_raster_file(filename) ==
    \E e \in {S_tif, S_tiff} : EndsWith(Lower(filename), e)

is_vector_file(filename) ==
    \E e \in {S_shp, S_geojson, S_json, S_zip} : EndsWith(Lower(filename), e)

\* str(uuid.uuid4()) of the j-th request: 36 characters, distinct for distinct
\* requests (also in their first 8 characters)
uuid4(j) == S_uuid_head \o Str(j) \o S_uuid_tail \o Str(j)

\* file_id: the whole uuid in upload_file, its first 8 characters in
\* process_local_file
FileId(kind, j) ==
    IF kind = "upload" THEN uuid4(j) ELSE SubSeq(uuid4(j), 1, 8)

\* input_path, relative to UPLOAD_DIR
InputPath(kind, filename, j) ==
    IF kind = "upload" THEN FileId(kind, j) \o S_underscore \o filename
    ELSE filename

\* the keep_source argument process_file_sync is called with
KeepSource(kind) == kind = "local"

\* input_path.parent == UPLOAD_DIR
InUploadDir(path) == ~Contains(path, S_slash)

\* output_name of process_file_sync
OutputName(kind, filename, j) ==
    PathStem(filename) \o S_underscore \o FileId(kind, j)
        \o (IF is_raster_file(filename) THEN S_tif ELSE S_geojson)

\* pmtiles_name of process_file_sync
PmtilesName(kind, filename, j) ==
    PathStem(filename) \o S_underscore \o FileId(kind, j) \o S_pmtiles

\* Files that exist outside UPLOAD_DIR and PROCESSED_DIR, by the path that
\* names them from UPLOAD_DIR
N_up_o_tif == <<".", ".", "/", "o", ".", "t", "i", "f">>

OutsideFiles == {N_up_o_tif}

\* input_path.exists() for UPLOAD_DIR / filename
InputExists(inc, filename) == filename \in DOMAIN inc \/ filename \in OutsideFiles

PartialOutput == [size |-> 0, complete |-> FALSE]

CompleteOutput == [size |-> chunk_size, complete |-> TRUE]

----------------------------------------------------------------------------
(* Jobs *)

NewJob(kind, filename) ==
    [kind |-> kind, filename |-> filename, st |-> "resp", on |-> "none",
     err |-> "none", status |-> 0, payload |-> "none", pm |-> FALSE,
     tiling |-> "none", result |-> None, fsops |-> <<>>]

JobInput(j) == InputPath(jobs[j].kind, jobs[j].filename, j)

JobOutput(j) == OutputName(jobs[j].kind, jobs[j].filename, j)

JobPmtiles(j) == PmtilesName(jobs[j].kind, jobs[j].filename, j)

Executing(j) == jobs[j].st \in {"run", "writing", "packaging"}

\* The request domain is one thread: it runs a handler only while it is not
\* inside a synchronous call.
LoopFree == \A j \in 1..Len(jobs) : ~(jobs[j].on = "loop" /\ Executing(j))

\* process_file_sync called by the handler itself instead of being submitted
run_in_executor_Inline == [st |-> "run", on |-> "loop"]

\* loop.run_in_executor(executor, process_file_sync, ...): the call is
\* submitted to the pool and the handler awaits its future
run_in_executor == [st |-> "queued", on |-> "pool"]

Dispatch(job) ==
    [job EXCEPT !.st = run_in_executor.st, !.on = run_in_executor.on]

Enqueue(q, j) == IF run_in_executor.on = "pool" THEN Append(q, j) ELSE q

\* An executor that starts a thread for every submitted call
PoolHasIdleWorker_Unbounded(r) == TRUE

\* ThreadPoolExecutor(max_workers=2): a queued call starts only on a free worker
PoolHasIdleWorker(r) == Cardinality(r) < max_workers

\* the except clause of upload_file without its unlink
UploadExcept_NoUnlink(inc, path) == inc

\* the except clause of upload_file: input_path.unlink(missing_ok=True)
UploadExcept(inc, path) == Unlink(inc, path)

\* process_local_file passing keep_source=False
CleanSource_Always(inc, kind, path) ==
    IF InUploadDir(path) THEN Unlink(inc, path) ELSE inc

\* the input clean-up of process_file_sync on success
CleanSource(inc, kind, path) ==
    IF ~KeepSource(kind) /\ InUploadDir(path) THEN Unlink(inc, path) ELSE inc

----------------------------------------------------------------------------
(* POST /api/upload and POST /api/upload-local, in the request domain *)

N_v_geojson == <<"v", ".", "g", "e", "o", "j", "s", "o", "n">>
N_s_zip == <<"s", ".", "z", "i", "p">>
N_n_txt == <<"n", ".", "t", "x", "t">>
N_d_a_tif == <<"d", "/", "a", ".", "t", "i", "f">>
N_b_tif == <<"b", ".", "t", "i", "f">>
N_g_tif == <<"g", ".", "t", "i", "f">>

\* file.filename of the uploads
UploadNames == {N_a_tif, N_s_zip, N_n_txt, N_d_a_tif, None}

\* request.filename of the upload-local requests
LocalNames == {N_b_tif, N_v_geojson, N_n_txt, N_g_tif, N_up_o_tif}

\* The files placed in UPLOAD_DIR out of band
LocalFiles == [n \in {N_b_tif, N_v_geojson, N_n_txt} |-> "full"]

\* upload_file up to its first await: the filename check, the identifier and
\* open(destination, "wb"), which fails when the name has a directory part
UploadRequest(names, maxJobs) ==
    /\ Len(jobs) < maxJobs
    /\ LoopFree
    /\ \E filename \in names :
          LET j == Len(jobs) + 1
              path == InputPath("upload", filename, j)
              job == NewJob("upload", filename)
          IN  IF filename = None
              THEN /\ jobs' = Append(jobs, [job EXCEPT !.status = 400,
                                                       !.payload = "detail"])
                   /\ incoming' = incoming
              ELSE IF Contains(filename, S_slash)
              THEN /\ jobs' = Append(jobs, [job EXCEPT !.status = 500,
                                                       !.payload = "detail",
                                                       !.err = "stream",
                                                       !.fsops = <<"open">>])
                   /\ incoming' = UploadExcept(incoming, path)
              ELSE /\ jobs' = Append(jobs, [job EXCEPT !.st = "stream",
                                                       !.fsops = <<"open">>])
                   /\ incoming' = WriteFile(incoming, path, "partial")
    /\ UNCHANGED <<processed, serveVars, queue, running, tempdirs>>

\* stream_upload_to_disk: one chunk is read and written (the file stays a
\* partial one, whatever the number of chunks), or the write fails and
\* upload_file's except clause answers 500
UploadChunk ==
    /\ LoopFree
    /\ \E j \in 1..Len(jobs), ok \in BOOLEAN :
          /\ jobs[j].st = "stream"
          /\ IF ok
             THEN /\ jobs' = jobs
                  /\ incoming' = WriteFile(incoming, JobInput(j), "partial")
             ELSE /\ jobs' = [jobs EXCEPT ![j].st = "resp", ![j].status = 500,
                                          ![j].payload = "detail",
                                          ![j].err = "stream"]
                  /\ incoming' = UploadExcept(incoming, JobInput(j))
    /\ UNCHANGED <<processed, serveVars, queue, running, tempdirs>>

\* stream_upload_to_disk reads the empty chunk; the file is closed and the
\* job is handed to the executor
UploadEof ==
    /\ LoopFree
    /\ \E j \in 1..Len(jobs) :
          /\ jobs[j].st = "stream"
          /\ jobs' = [jobs EXCEPT ![j] = Dispatch(@)]
          /\ incoming' = WriteFile(incoming, JobInput(j), "full")
          /\ queue' = Enqueue(queue, j)
    /\ UNCHANGED <<processed, serveVars, running, tempdirs>>

\* process_local_file up to its await
LocalRequest(names, maxJobs) ==
    /\ Len(jobs) < maxJobs
    /\ LoopFree
    /\ \E filename \in names :
          LET j == Len(jobs) + 1
              job == NewJob("local", filename)
          IN  IF ~InputExists(incoming, filename)
              THEN /\ jobs' = Append(jobs, [job EXCEPT !.status = 404,
                                               !.payload = "detail",
                                               !.fsops = <<"exists", "iterdir">>])
                   /\ queue' = queue
              ELSE IF ~(is_raster_file(filename) \/ is_vector_file(filename))
              THEN /\ jobs' = Append(jobs, [job EXCEPT !.status = 400,
                                               !.payload = "detail",
                                               !.fsops = <<"exists">>])
                   /\ queue' = queue
              ELSE /\ jobs' = Append(jobs, Dispatch([job EXCEPT !.fsops = <<"exists">>]))
                   /\ queue' = Enqueue(queue, j)
    /\ UNCHANGED <<processed, serveVars, incoming, running, tempdirs>>

\* The awaited future is done: the handler answers with the result, or its
\* except clause answers 500 (upload_file first removes the input file)
Complete ==
    /\ LoopFree
    /\ \E j \in 1..Len(jobs) :
          /\ jobs[j].st \in {"returned", "raised"}
          /\ jobs' = [jobs EXCEPT ![j].st = "resp",
                         ![j].status = IF jobs[j].st = "returned" THEN 200 ELSE 500,
                         ![j].payload = IF jobs[j].st = "returned" THEN "result"
                                        ELSE "detail"]
          /\ incoming' = IF jobs[j].st = "raised" /\ jobs[j].kind = "upload"
                         THEN UploadExcept(incoming, JobInput(j))
                         ELSE incoming
    /\ UNCHANGED <<processed, serveVars, queue, running, tempdirs>>

----------------------------------------------------------------------------
(* The worker pool and process_file_sync *)

\* A free worker takes the oldest queued call
WorkerStart ==
    /\ queue # <<>>
    /\ PoolHasIdleWorker(running)
    /\ running' = running \cup {Head(queue)}
    /\ queue' = Tail(queue)
    /\ jobs' = [jobs EXCEPT ![Head(queue)].st = "run"]
    /\ UNCHANGED <<processed, serveVars, incoming, tempdirs>>

S_processed_url == <<"/", "p", "r", "o", "c", "e", "s", "s", "e", "d", "/">>

\* the dict process_file_sync returns for a raster (lines 522-529)
RasterResult(file_id, original_name, output_name) ==
    [success |-> TRUE, id |-> file_id, name |-> original_name,
     type |-> "raster", url |-> S_processed_url \o output_name,
     message |-> "Raster converted to COG successfully",
     pmtilesUrl |-> None]

\* the dict process_file_sync returns for a vector (lines 569-582);
\* pmtilesUrl None stands for the key being absent
VectorResult(file_id, original_name, output_name, pmtiles_url) ==
    [success |-> TRUE, id |-> file_id, name |-> original_name,
     type |-> "vector", url |-> S_processed_url \o output_name,
     message |-> IF pmtiles_url # None
                 THEN "Vector converted to GeoJSON + PMTiles successfully"
                 ELSE "Vector converted successfully",
     pmtilesUrl |-> pmtiles_url]

\* What convert_geojson_to_pmtiles can do: "ok", "exit" (tippecanoe exits
\* non-zero: CalledProcessError, re-raised as RuntimeError) or "absent" (no
\* tippecanoe to run: FileNotFoundError out of subprocess.run)
TilingOutcomes == {"ok", "exit", "absent"}

\* the except clause catching RuntimeError only
PmtilesErrorCaught_RuntimeOnly(outcome) == outcome # "absent"

\* whether the try/except of lines 556-561 keeps the outcome from leaving
\* process_file_sync: "except Exception" catches both failures
PmtilesErrorCaught(outcome) == TRUE

\* What can happen up to the moment the output file is opened for writing
BeginOutcomes(filename) ==
    IF is_raster_file(filename) THEN {"read", "opened"}
    ELSE IF is_vector_file(filename)
    THEN IF EndsWith(Lower(filename), S_zip)
         THEN {"badzip", "noshp", "read", "opened"}
         ELSE {"read", "opened"}
    ELSE {"unsupported"}

\* TempDirLeft without the rmtree of lines 542-543
TempDirLeft_NoRmtree(filename, o) ==
    /\ EndsWith(Lower(filename), S_zip)
    /\ o \in {"badzip", "noshp", "read", "opened"}

\* Whether the directory of tempfile.mkdtemp() (line 537) exists when that
\* moment is reached or the function is left before it: only the branch that
\* finds no .shp removes it (542-543) before raising
TempDirLeft(filename, o) ==
    /\ EndsWith(Lower(filename), S_zip)
    /\ o \in {"badzip", "read", "opened"}

\* process_file_sync from its start to the opening of the output file:
\* rasterio.open(input) and rasterio.open(output, 'w') in convert_to_cog;
\* mkdtemp, extract_shapefile_from_zip, gpd.read_file and gdf.to_file in the
\* vector branch; ValueError for any other name
PfsBegin ==
    \E j \in 1..Len(jobs) :
       /\ jobs[j].st = "run"
       /\ \E o \in BeginOutcomes(jobs[j].filename) :
             /\ jobs' = [jobs EXCEPT
                           ![j].st = IF o = "opened" THEN "writing" ELSE "raised",
                           ![j].err = IF o = "opened" THEN "none" ELSE o]
             /\ processed' = IF o = "opened"
                             THEN WriteFile(processed, JobOutput(j), PartialOutput)
                             ELSE processed
             /\ tempdirs' = IF TempDirLeft(jobs[j].filename, o)
                            THEN tempdirs \cup {j} ELSE tempdirs
             /\ running' = IF o = "opened" THEN running ELSE running \ {j}
       /\ UNCHANGED <<serveVars, incoming, queue>>

\* The output is written: reproject and build_overviews, or gdf.to_file.  A
\* raster job then cleans its input up and returns; a vector job goes on to
\* the tiling tool.  An error leaves the function by its "raise e".
PfsWrite ==
    \E j \in 1..Len(jobs), ok \in BOOLEAN :
       /\ jobs[j].st = "writing"
       /\ IF ~ok
          THEN /\ jobs' = [jobs EXCEPT ![j].st = "raised", ![j].err = "write"]
               /\ UNCHANGED <<processed, incoming>>
               /\ running' = running \ {j}
          ELSE /\ processed' = WriteFile(processed, JobOutput(j), CompleteOutput)
               /\ IF is_raster_file(jobs[j].filename)
                  THEN /\ jobs' = [jobs EXCEPT
                                    ![j].st = "returned",
                                    ![j].result =
                                        RasterResult(FileId(jobs[j].kind, j),
                                                     PathStem(jobs[j].filename),
                                                     JobOutput(j))]
                       /\ incoming' = CleanSource(incoming, jobs[j].kind, JobInput(j))
                       /\ running' = running \ {j}
                  ELSE /\ jobs' = [jobs EXCEPT ![j].st = "packaging"]
                       /\ UNCHANGED <<incoming, running>>
       /\ UNCHANGED <<serveVars, queue, tempdirs>>

\* convert_geojson_to_pmtiles succeeds or fails (the failure is caught), then
\* the temporary directory and the input are cleaned up and the result returned
PfsPackage ==
    \E j \in 1..Len(jobs), o \in TilingOutcomes :
       /\ jobs[j].st = "packaging"
       /\ IF ~PmtilesErrorCaught(o)
          THEN /\ jobs' = [jobs EXCEPT ![j].st = "raised", ![j].err = "tiling",
                                       ![j].tiling = o]
               /\ UNCHANGED <<processed, tempdirs, incoming>>
          ELSE LET pmtiles_url == IF o = "ok"
                                  THEN S_processed_url \o JobPmtiles(j)
                                  ELSE None
               IN  /\ jobs' = [jobs EXCEPT
                                 ![j].st = "returned", ![j].pm = (o = "ok"),
                                 ![j].tiling = o,
                                 ![j].result =
                                     VectorResult(FileId(jobs[j].kind, j),
                                                  PathStem(jobs[j].filename),
                                                  JobOutput(j), pmtiles_url)]
                   /\ processed' = IF o = "ok"
                                   THEN WriteFile(processed, JobPmtiles(j),
                                                  CompleteOutput)
                                   ELSE processed
                   /\ tempdirs' = tempdirs \ {j}
                   /\ incoming' = CleanSource(incoming, jobs[j].kind, JobInput(j))
       /\ running' = running \ {j}
       /\ UNCHANGED <<serveVars, queue>>

----------------------------------------------------------------------------
(* The pipeline as a state machine *)

Init ==
    /\ processed = EmptyDir
    /\ req = NoReq
    /\ resp = NoResp
    /\ fsops = <<>>
    /\ gen = GenIdle
    /\ incoming = LocalFiles
    /\ jobs = <<>>
    /\ queue = <<>>
    /\ running = {}
    /\ tempdirs = {}

Next ==
    \/ UploadRequest(UploadNames, MaxJobs)
    \/ UploadChunk
    \/ UploadEof
    \/ LocalRequest(LocalNames, MaxJobs)
    \/ Complete
    \/ WorkerStart
    \/ PfsBegin
    \/ PfsWrite
    \/ PfsPackage

Spec == Init /\ [][Next]_vars

----------------------------------------------------------------------------
(* The layer catalog: list_layers *)

\* The orders in which PROCESSED_DIR.iterdir() may enumerate the files
IterdirOrders(fs) ==
    LET n == Cardinality(DOMAIN fs)
    IN  {o \in [1..n -> DOMAIN fs] : \A i, k \in 1..n : i # k => o[i] # o[k]}

\* file.stem.rsplit('_', 1)[0] if '_' in file.stem else file.stem
LayerName(stem) ==
    IF RFind(stem, "_") > 0 THEN SubSeq(stem, 1, RFind(stem, "_") - 1) ELSE stem

\* LayerOf never looking for the companion file
LayerOf_NoCompanion(fs, file) ==
    [id |-> PathStem(file),
     name |-> LayerName(PathStem(file)),
     type |-> IF Lower(PathSuffix(file)) \in {S_tif, S_tiff}
              THEN "raster" ELSE "vector",
     url |-> S_processed_url \o file,
     pmtilesUrl |-> None]

\* the body of the loop of list_layers for one file
LayerOf(fs, file) ==
    [id |-> PathStem(file),
     name |-> LayerName(PathStem(file)),
     type |-> IF Lower(PathSuffix(file)) \in {S_tif, S_tiff}
              THEN "raster" ELSE "vector",
     url |-> S_processed_url \o file,
     pmtilesUrl |-> IF (PathStem(file) \o S_pmtiles) \in DOMAIN fs
                    THEN S_processed_url \o PathStem(file) \o S_pmtiles
                    ELSE None]

RECURSIVE ListFrom(_, _, _, _)
ListFrom(fs, order, layers, seen_ids) ==
    IF order = <<>> THEN layers
    ELSE LET file == Head(order)
         IN  IF \/ Lower(PathSuffix(file)) = S_pmtiles
                \/ PathStem(file) \in seen_ids
             THEN ListFrom(fs, Tail(order), layers, seen_ids)
             ELSE ListFrom(fs, Tail(order), Append(layers, LayerOf(fs, file)),
                           seen_ids \cup {PathStem(file)})

\* list_layers for one enumeration order of the directory
list_layers(fs, order) == ListFrom(fs, order, <<>>, {})

\* The ids of a listing (they do not depend on the enumeration order)
LayerIds(fs) ==
    LET l == list_layers(fs, CHOOSE o \in IterdirOrders(fs) : TRUE)
    IN  {l[i].id : i \in 1..Len(l)}

----------------------------------------------------------------------------
(* The pool under load: raster jobs, alone (SpecPool) and with the catalog  *)
(* and the range reader serving meanwhile (SpecLoop)                        *)

PoolUploadNames == {N_a_tif}

PoolLocalNames == {N_b_tif}

\* GET /api/layers
CatalogRequest ==
    /\ req = NoReq
    /\ LoopFree
    /\ \E order \in IterdirOrders(processed) :
          resp' = [TileResponse(200, "layers") EXCEPT
                      !.layers = list_layers(processed, order)]
    /\ req' = [endpoint |-> "layers", method |-> "GET", name |-> None,
               range |-> None]
    /\ fsops' = <<"iterdir">>
    /\ gen' = GenIdle
    /\ UNCHANGED <<processed, jobVars>>

\* GET /api/cog/{filename} with Range: bytes=0- for a file of the directory
OutputRangeRequest ==
    /\ req = NoReq
    /\ LoopFree
    /\ \E filename \in DOMAIN processed :
          LET range == S_bytes_eq \o <<"0", "-">>
              h == get_cog_file(processed, "GET", filename, range)
          IN  /\ req' = [endpoint |-> "cog", method |-> "GET",
                         name |-> filename, range |-> range]
              /\ resp' = h.resp
              /\ fsops' = h.fsops
              /\ gen' = GenFor(filename, h.resp)
    /\ UNCHANGED <<processed, jobVars>>

NextPool ==
    \/ UploadRequest(PoolUploadNames, MaxPoolJobs)
    \/ UploadChunk
    \/ UploadEof
    \/ LocalRequest(PoolLocalNames, MaxPoolJobs)
    \/ Complete
    \/ WorkerStart
    \/ PfsBegin
    \/ PfsWrite

SpecPool == Init /\ [][NextPool]_vars

\* The streaming of a body and the end of a read are steps of the request
\* domain too
LoopRangeBodyStep == LoopFree /\ RangeBodyStep

LoopDelivered == LoopFree /\ Delivered

NextLoop ==
    \/ UploadRequest(PoolUploadNames, MaxLoopJobs)
    \/ UploadChunk
    \/ UploadEof
    \/ LocalRequest(PoolLocalNames, MaxLoopJobs)
    \/ Complete
    \/ WorkerStart
    \/ PfsBegin
    \/ PfsWrite
    \/ CatalogRequest
    \/ OutputRangeRequest
    \/ LoopRangeBodyStep
    \/ LoopDelivered

\* The output directory already holds a layer of an earlier job
InitLoop ==
    /\ processed = [n \in {N_m_tif} |-> CompleteOutput]
    /\ req = NoReq
    /\ resp = NoResp
    /\ fsops = <<>>
    /\ gen = GenIdle
    /\ incoming = LocalFiles
    /\ jobs = <<>>
    /\ queue = <<>>
    /\ running = {}
    /\ tempdirs = {}

SpecLoop == InitLoop /\ [][NextLoop]_vars

----------------------------------------------------------------------------
(* Properties of the pipeline *)

\* The jobs whose conversion raised after the output file had been opened
FailedWriting == {j \in 1..Len(jobs) : jobs[j].err = "write"}

\* C4 as stated: after a job has failed inside a normalizer with its output
\* file already opened for writing, output storage holds no file of the job's
\* output name: the catalog does not list it and the range reader answers 404.
C4_NoPartialOutputLeft ==
    \A j \in FailedWriting :
        /\ JobOutput(j) \notin DOMAIN processed
        /\ PathStem(JobOutput(j)) \notin LayerIds(processed)
        /\ get_cog_file(processed, "GET", JobOutput(j), None).resp.status = 404

\* C5: when a POST /upload has ended in failure, in the streaming of the body
\* or in the conversion, its incoming file <id>_<filename> does not exist and
\* the response is a 500 carrying a message.
C5_FailedUploadLeavesNoInput ==
    \A j \in 1..Len(jobs) :
        (jobs[j].kind = "upload" /\ jobs[j].st = "resp" /\ jobs[j].err # "none") =>
            /\ jobs[j].status = 500
            /\ jobs[j].payload = "detail"
            /\ JobInput(j) \notin DOMAIN incoming

\* One upload failed while its body was streamed to an already created file,
\* another failed in the conversion; both have been answered
C5_Witness ==
    \E j, k \in 1..Len(jobs) :
        /\ jobs[j].kind = "upload" /\ jobs[k].kind = "upload"
        /\ jobs[j].filename = N_a_tif
        /\ jobs[j].st = "resp" /\ jobs[j].err = "stream"
        /\ jobs[k].st = "resp" /\ jobs[k].err \in {"read", "write", "noshp"}
        /\ JobInput(j) \notin DOMAIN incoming
        /\ JobInput(k) \notin DOMAIN incoming

\* The jobs process_file_sync has returned from or raised in
Finished(j) == jobs[j].on # "none" /\ jobs[j].st \in {"returned", "raised", "resp"}

\* C6: after a successful job of POST /upload its incoming file does not
\* exist; after any job of POST /upload-local, successful or failed, the
\* named source file still exists, with the content it had.
C6_SourceLifecycle ==
    \A j \in 1..Len(jobs) :
        /\ (jobs[j].kind = "upload" /\ Finished(j) /\ jobs[j].err = "none") =>
              JobInput(j) \notin DOMAIN incoming
        /\ (jobs[j].kind = "local" /\ Finished(j)) =>
              /\ InputExists(incoming, jobs[j].filename)
              /\ jobs[j].filename \in DOMAIN LocalFiles =>
                    /\ jobs[j].filename \in DOMAIN incoming
                    /\ incoming[jobs[j].filename] = LocalFiles[jobs[j].filename]

\* An upload-local job and an upload job have both succeeded
C6_Witness ==
    \E j, k \in 1..Len(jobs) :
        /\ jobs[j].kind = "local" /\ jobs[j].status = 200
        /\ jobs[j].filename \in DOMAIN incoming
        /\ jobs[k].kind = "upload" /\ jobs[k].status = 200
        /\ JobInput(k) \notin DOMAIN incoming

\* C7: at most 2 executions of process_file_sync run at the same time,
\* however many requests are pending; while 2 run, no queued job can start.
C7_AtMostTwoRunning ==
    LET executing == {j \in 1..Len(jobs) : Executing(j)}
    IN  /\ Cardinality(executing) <= 2
        /\ Cardinality(executing) = 2 => ~ENABLED WorkerStart
        /\ \A j \in 1..Len(jobs) :
              jobs[j].st = "queued" => \E i \in 1..Len(queue) : queue[i] = j

\* Two jobs run and a third one waits in the queue
C7_Witness ==
    /\ Cardinality({j \in 1..Len(jobs) : Executing(j)}) = 2
    /\ \E j \in 1..Len(jobs) : jobs[j].st = "queued"

\* C8: process_file_sync runs only on a pool worker, never in the request
\* domain; whatever the jobs running or queued, the request domain is free to
\* handle a listing or a range read, can stream the body of a read in
\* progress and end it, and can take another job.
C8_RequestDomainNeverConverts ==
    /\ \A j \in 1..Len(jobs) :
          Executing(j) => (jobs[j].on = "pool" /\ j \in running)
    /\ LoopFree
    /\ gen.pc = "range" => ENABLED LoopRangeBodyStep
    /\ (req # NoReq /\ gen.pc \in {"idle", "done"}) => ENABLED LoopDelivered
    /\ Len(jobs) < MaxLoopJobs =>
          /\ ENABLED UploadRequest(PoolUploadNames, MaxLoopJobs)
          /\ ENABLED LocalRequest(PoolLocalNames, MaxLoopJobs)

\* Both pool workers are busy and a range read has been served whole meanwhile
C8_Witness ==
    /\ Cardinality({j \in 1..Len(jobs) : Executing(j)}) = 2
    /\ req.endpoint = "cog"
    /\ resp.status = 206
    /\ gen.pc = "done"

\* C10 as stated: POST /upload-local with a file name that contains ".." or is
\* absolute is answered 4xx before any filesystem access, and no job is
\* submitted for it.
C10_LocalTraversalRejected ==
    \A j \in 1..Len(jobs) :
        (jobs[j].kind = "local" /\ IsTraversalName(jobs[j].filename)) =>
            /\ jobs[j].status \in 400..499
            /\ jobs[j].fsops = <<>>
            /\ jobs[j].on = "none"

\* C11 as stated: a POST /upload of a file whose name has an unsupported
\* extension is answered 4xx before any file I/O or dispatch: nothing is
\* written to incoming storage and no job is submitted to the pool for it.
C11_UnsupportedUploadRejected ==
    \A j \in 1..Len(jobs) :
        (/\ jobs[j].kind = "upload"
         /\ jobs[j].filename # None
         /\ ~Contains(jobs[j].filename, S_slash)
         /\ ~(is_raster_file(jobs[j].filename) \/ is_vector_file(jobs[j].filename))) =>
            /\ JobInput(j) \notin DOMAIN incoming
            /\ jobs[j].fsops = <<>>
            /\ jobs[j].on = "none"
            /\ jobs[j].st = "resp"
            /\ jobs[j].status \in 400..499

\* C12 as stated: a request to the range reader whose Range header is present
\* and does not match bytes=<start>-[<end>] (bytes=-500, items=0-9) is
\* answered with a 4xx validation error, not with file content.
C12_MalformedRangeRejected ==
    (/\ req.endpoint = "cog"
     /\ req.range # None
     /\ ~RangeMatch(req.range).matched) =>
        /\ resp.status \in 400..499
        /\ resp.body \notin {"full", "range"}

----------------------------------------------------------------------------
(* The catalog and the deletion of layers *)

MaxFiles == 3

N_a_1_tif == <<"a", "_", "1", ".", "t", "i", "f">>
N_a_1_geojson == <<"a", "_", "1">> \o S_geojson
N_a_1_pmtiles == <<"a", "_", "1">> \o S_pmtiles
N_b_1_geojson == <<"b", "_", "1">> \o S_geojson
N_c_1_pmtiles == <<"c", "_", "1">> \o S_pmtiles
N_d_21_TIF == <<"d", "_", "2", "1", ".", "T", "I", "F">>

CatalogNames ==
    {N_a_1_tif, N_a_1_geojson, N_a_1_pmtiles, N_b_1_geojson, N_c_1_pmtiles,
     N_d_21_TIF}

\* layer ids asked to be deleted: a whole stem, a shared ending, no ending
DeleteIds == {<<"a", "_", "1">>, <<"1">>, <<"_", "2", "1">>, <<"z">>}

\* the first file of the enumeration whose stem ends with layer_id, or None
FirstMatch(order, layer_id) ==
    LET hits == {i \in 1..Len(order) : EndsWith(PathStem(order[i]), layer_id)}
    IN  IF hits = {} THEN None
        ELSE order[CHOOSE i \in hits : \A k \in hits : i <= k]

\* delete_layer unlinking every file that matches
delete_layer_All(fs, order, layer_id) ==
    LET hits == {f \in DOMAIN fs : EndsWith(PathStem(f), layer_id)}
    IN  IF hits = {}
        THEN [fs |-> fs, resp |-> HTTPException(404), fsops |-> <<"iterdir">>]
        ELSE [fs |-> [f \in DOMAIN fs \ hits |-> fs[f]],
              resp |-> TileResponse(200, "success_message"),
              fsops |-> <<"iterdir", "unlink">>]

\* delete_layer for one enumeration order of the directory
delete_layer(fs, order, layer_id) ==
    LET file == FirstMatch(order, layer_id)
    IN  IF file = None
        THEN [fs |-> fs, resp |-> HTTPException(404), fsops |-> <<"iterdir">>]
        ELSE [fs |-> Unlink(fs, file),
              resp |-> TileResponse(200, "success_message"),
              fsops |-> <<"iterdir", "unlink">>]

\* DELETE /api/layers/{layer_id}; order is the enumeration the directory gave
DeleteRequest ==
    /\ req = NoReq
    /\ LoopFree
    /\ \E layer_id \in DeleteIds, order \in IterdirOrders(processed) :
          LET h == delete_layer(processed, order, layer_id)
          IN  /\ req' = [endpoint |-> "delete", method |-> "DELETE",
                         name |-> layer_id, range |-> None, order |-> order]
              /\ resp' = h.resp
              /\ fsops' = h.fsops
              /\ processed' = h.fs
    /\ gen' = GenIdle
    /\ UNCHANGED jobVars

\* Output storage holds some layers of earlier jobs
InitCatalog ==
    /\ \E names \in SUBSET CatalogNames :
          /\ Cardinality(names) <= MaxFiles
          /\ processed = [n \in names |-> CompleteOutput]
    /\ req = NoReq
    /\ resp = NoResp
    /\ fsops = <<>>
    /\ gen = GenIdle
    /\ incoming = EmptyDir
    /\ jobs = <<>>
    /\ queue = <<>>
    /\ running = {}
    /\ tempdirs = {}

NextCatalog ==
    \/ CatalogRequest
    \/ DeleteRequest
    \/ Delivered

SpecCatalog == InitCatalog /\ [][NextCatalog]_vars

\* C13: one listing never has two entries of the same id, never has an entry
\* for a .pmtiles file whose same-stem primary output exists, and an entry
\* carries a companion URL exactly when <stem>.pmtiles exists at that time.
C13_CatalogListing ==
    req.endpoint = "layers" =>
        LET L == resp.layers
        IN  /\ \A i, k \in 1..Len(L) : i # k => L[i].id # L[k].id
            /\ \A i \in 1..Len(L) :
                  EndsWith(Lower(L[i].url), S_pmtiles) =>
                      ~\E f \in DOMAIN processed :
                           /\ PathStem(f) = L[i].id
                           /\ Lower(PathSuffix(f)) # S_pmtiles
            /\ \A i \in 1..Len(L) :
                  /\ (L[i].pmtilesUrl # None) <=>
                        ((L[i].id \o S_pmtiles) \in DOMAIN processed)
                  /\ L[i].pmtilesUrl \in
                        {None, S_processed_url \o L[i].id \o S_pmtiles}

\* A listing of a directory holding two primaries of one stem and their
\* companion: one entry for the stem, with the companion URL
C13_Witness ==
    /\ req.endpoint = "layers"
    /\ {N_a_1_tif, N_a_1_geojson, N_a_1_pmtiles} \subseteq DOMAIN processed
    /\ Len(resp.layers) = 1
    /\ resp.layers[1].pmtilesUrl # None

\* C14: DELETE /layers/{id} removes exactly one file of output storage, the
\* first in enumeration order whose stem ends with id, and leaves every other
\* file as it was; when no stem ends with id it answers 404 and output
\* storage is unchanged.
C14_DeleteRemovesFirstMatch ==
    [][(req.endpoint # "delete" /\ req'.endpoint = "delete") =>
         LET order == req'.order
             hits == {i \in 1..Len(order) :
                         EndsWith(PathStem(order[i]), req'.name)}
         IN  /\ {order[i] : i \in 1..Len(order)} = DOMAIN processed
             /\ IF hits = {}
                THEN /\ resp'.status = 404
                     /\ processed' = processed
                ELSE \E i \in hits :
                        /\ \A k \in hits : i <= k
                        /\ resp'.status = 200
                        /\ DOMAIN processed' = DOMAIN processed \ {order[i]}
                        /\ \A f \in DOMAIN processed' :
                              processed'[f] = processed[f]]_vars

\* A deletion answered 200 that left another file whose stem ends with the id
C14_Witness ==
    /\ req.endpoint = "delete"
    /\ resp.status = 200
    /\ \E f \in DOMAIN processed : EndsWith(PathStem(f), req.name)

\* C15: in a vector job whose GeoJSON was written, a failure of the tiling
\* tool (non-zero exit, or no tool) does not fail the job: the result has
\* success true and no pmtilesUrl, its message is not the message of a job
\* whose packaging succeeded, and the cleanup of the input has run.
C15_TilingFailureNotFatal ==
    \A j \in 1..Len(jobs) :
        jobs[j].tiling \in {"exit", "absent"} =>
            /\ jobs[j].st \in {"returned", "resp"}
            /\ jobs[j].err = "none"
            /\ jobs[j].result # None
            /\ jobs[j].result.success = TRUE
            /\ jobs[j].result.pmtilesUrl = None
            /\ jobs[j].result.message #
                  "Vector converted to GeoJSON + PMTiles successfully"
            /\ jobs[j].st = "resp" => jobs[j].status = 200
            /\ j \notin tempdirs
            /\ jobs[j].kind = "upload" => JobInput(j) \notin DOMAIN incoming
            /\ JobOutput(j) \in DOMAIN processed
            /\ JobPmtiles(j) \notin DOMAIN processed

\* An uploaded archive and a local GeoJSON both answered 200 after the tiling
\* tool failed, one for each way of failing
C15_Witness ==
    \E j, k \in 1..Len(jobs) :
        /\ jobs[j].kind = "upload" /\ jobs[j].filename = N_s_zip
        /\ jobs[j].tiling = "absent" /\ jobs[j].status = 200
        /\ jobs[k].kind = "local" /\ jobs[k].tiling = "exit"
        /\ jobs[k].status = 200
        /\ jobs[k].result.message = "Vector converted successfully"

\* C16: a .zip job whose archive holds no .shp file fails with the error of
\* its own ("no shapefile"), its temporary extraction directory no longer
\* exists when the error leaves process_file_sync, and no output file has
\* been created for the job.
C16_ZipWithoutShapefile ==
    \A j \in 1..Len(jobs) :
        jobs[j].err = "noshp" =>
            /\ EndsWith(Lower(jobs[j].filename), S_zip)
            /\ jobs[j].st \in {"raised", "resp"}
            /\ j \notin running
            /\ j \notin tempdirs
            /\ JobOutput(j) \notin DOMAIN processed
            /\ JobPmtiles(j) \notin DOMAIN processed
            /\ jobs[j].result = None
            /\ jobs[j].st = "resp" =>
                  (jobs[j].status = 500 /\ jobs[j].payload = "detail")

\* An uploaded archive without .shp has been answered 500
C16_Witness ==
    \E j \in 1..Len(jobs) :
        /\ jobs[j].filename = N_s_zip
        /\ jobs[j].err = "noshp"
        /\ jobs[j].st = "resp"
        /\ jobs[j].status = 500

\* C17 as stated: for a tile request naming an existing .tif/.tiff raster of
\* output storage, a tile wholly outside the raster's bounds is always
\* answered 200 with the fixed transparent PNG, and any other failure of the
\* read or the rendering is answered 500.
C17_OutsideBoundsIsTransparent ==
    (/\ req.endpoint = "tiles"
     /\ ~Contains(req.name, S_slash)
     /\ Exists(processed, req.name)
     /\ Lower(PathSuffix(req.name)) \in {S_tif, S_tiff}) =>
        /\ req.outcome = "outside" =>
              (resp.status = 200 /\ resp.body = "transparent_png")
        /\ req.outcome = "error" => resp.status = 500

\* C17 amended: the same for a request whose file name passes the traversal
\* check (no ".." in it, no leading "/").
C17_OutsideBoundsIsTransparent_Amended ==
    (/\ req.endpoint = "tiles"
     /\ ~IsTraversalName(req.name)
     /\ Exists(processed, req.name)
     /\ Lower(PathSuffix(req.name)) \in {S_tif, S_tiff}) =>
        /\ req.outcome = "outside" =>
              (resp.status = 200 /\ resp.body = "transparent_png")
        /\ req.outcome = "error" =>
              (resp.status = 500 /\ resp.body # "transparent_png")
        /\ req.outcome = "ok" => (resp.status = 200 /\ resp.body = "png")

\* A tile outside the bounds of A.TIFF has been answered with the PNG
C17_Witness ==
    /\ req.endpoint = "tiles"
    /\ req.name = N_A_TIFF
    /\ req.outcome = "outside"
    /\ resp.status = 200
    /\ resp.body = "transparent_png"

----------------------------------------------------------------------------
(* The overviews of convert_to_cog *)

DimSlack == 1

overview_levels == <<2, 4, 8, 16, 32, 64>>

min_overview_size == 64

\* valid_levels computed from the larger of the two dimensions
valid_levels_MaxDim(width, height) ==
    LET min_dim == IF width >= height THEN width ELSE height
    IN  SelectSeq(overview_levels, LAMBDA l : min_dim \div l >= min_overview_size)

\* [l for l in overview_levels if min_dim // l >= 64]
valid_levels(width, height) ==
    LET min_dim == Min(width, height)
    IN  SelectSeq(overview_levels, LAMBDA l : min_dim \div l >= min_overview_size)

\* lines 363-372: the file as convert_to_cog leaves it, with the overviews it
\* built (build_overviews is called only for a non-empty list)
CogOutput(width, height) ==
    LET levels == valid_levels(width, height)
    IN  [size |-> chunk_size, complete |-> TRUE,
         width |-> width, height |-> height,
         built |-> levels # <<>>,
         overviews |-> levels]

\* destination sizes: around every multiple of 64 that decides a level
Dims ==
    {n \in {min_overview_size * l + d :
               l \in {1} \cup {overview_levels[i] : i \in 1..Len(overview_levels)},
               d \in (0 - DimSlack)..DimSlack} : n >= 1}

\* convert_to_cog run on a raster whose destination grid is width x height
ConvertToCog ==
    /\ \E width \in Dims, height \in Dims :
          processed' = WriteFile(processed, N_a_tif, CogOutput(width, height))
    /\ UNCHANGED <<serveVars, jobVars>>

NextOverviews == ConvertToCog

SpecOverviews == Init /\ [][NextOverviews]_vars

\* C18: for every destination width and height the overview levels kept are
\* exactly the l of 2, 4, 8, 16, 32, 64 with min(width, height) / l >= 64;
\* the list is strictly increasing and a prefix of the candidates, and
\* overviews are built only when it is not empty.
C18_OverviewLevels ==
    \A f \in DOMAIN processed :
        LET o == processed[f]
            L == o.overviews
            m == IF o.width <= o.height THEN o.width ELSE o.height
        IN  /\ {L[i] : i \in 1..Len(L)} =
                  {l \in {2, 4, 8, 16, 32, 64} : m >= 64 * l}
            /\ \A i \in 1..(Len(L) - 1) : L[i] < L[i + 1]
            /\ Len(L) <= 6
            /\ \A i \in 1..Len(L) : L[i] = 2 ^ i
            /\ o.built <=> (L # <<>>)
            /\ o.built => m >= 128

\* A 255 x 4097 raster keeps level 2 only; its larger side would keep all six
C18_Witness ==
    /\ N_a_tif \in DOMAIN processed
    /\ processed[N_a_tif].width = 255
    /\ processed[N_a_tif].height = 4097
    /\ processed[N_a_tif].overviews = <<2>>
    /\ processed[N_a_tif].built

----------------------------------------------------------------------------
(* The payloads of the responses *)

\* The keys of the JSON object a response carries, by the kind of its body:
\* a raised HTTPException(status_code, detail=...) is rendered as
\* {"detail": ...} (no exception handler is registered on the app),
\* delete_layer returns {"success", "message"}, list_layers {"layers"};
\* the other bodies are not JSON objects
PayloadKeys(body) ==
    CASE body = "detail" -> {"detail"}
      [] body = "success_message" -> {"success", "message"}
      [] body = "layers" -> {"layers"}
      [] body = "info" -> {"bounds", "minzoom", "maxzoom", "band_metadata",
                           "dtype", "colorinterp"}
      [] OTHER -> {}

\* C19 as stated: every failure response (validation, not found, range not
\* satisfiable, failure of the read) is a structured payload that holds a
\* success flag and a message.
C19_FailuresAreStructured ==
    resp.status >= 400 =>
        {"success", "message"} \subseteq PayloadKeys(resp.body)

\* C20 as stated: every job, of POST /upload or of POST /upload-local, is
\* given a full-length identifier (36 characters, not the first 8), and no two
\* jobs target the same output path or write the same incoming file.
C20_FullLengthIdentifiers ==
    \A j \in 1..Len(jobs) :
        jobs[j].on # "none" =>
            /\ Len(FileId(jobs[j].kind, j)) = 36
            /\ jobs[j].result # None => Len(jobs[j].result.id) = 36
            /\ \A k \in 1..Len(jobs) :
                  (k # j /\ jobs[k].on # "none") =>
                      /\ JobOutput(j) # JobOutput(k)
                      /\ (jobs[j].kind = "upload" /\ jobs[k].kind = "upload") =>
                            JobInput(j) # JobInput(k)

\* C25 as stated: for a .zip job the temporary extraction directory it made
\* no longer exists once process_file_sync has returned or raised, on every
\* exit path (archive unreadable, no .shp, conversion failure, packaging
\* failure, success).
C25_TempDirRemovedOnEveryExit ==
    \A j \in 1..Len(jobs) :
        (/\ EndsWith(Lower(jobs[j].filename), S_zip)
         /\ jobs[j].on # "none"
         /\ jobs[j].st \in {"returned", "raised", "resp"}) =>
            j \notin tempdirs

\* C22: the range reader decides a request by the first failing check, in
\* this order: a name with ".." or a leading "/" gives 400; a name ending in
\* .ovr gives 404, also when the file exists; an absent file gives 404; an
\* existing file that is not .tif, .tiff or .pmtiles gives 400; only then
\* does the Range header count.  A rejected request reads no file content.
C22_CheckOrder ==
    req.endpoint = "cog" =>
        LET n == req.name
            k == Len(n)
            ovr == k >= 4 /\ Lower(SubSeq(n, k - 3, k)) = <<".", "o", "v", "r">>
        IN  /\ IF IsTraversalName(n)
               THEN resp.status = 400 /\ fsops = <<>>
               ELSE IF ovr
               THEN resp.status = 404 /\ fsops = <<>>
               ELSE IF n \notin DOMAIN processed
               THEN resp.status = 404
               ELSE IF Lower(PathSuffix(n)) \notin {S_tif, S_tiff, S_pmtiles}
               THEN resp.status = 400
               ELSE resp.status \in {200, 206, 416}
            /\ resp.status \in {400, 404} =>
                  /\ resp.body = "detail"
                  /\ gen = GenIdle
                  /\ \A i \in 1..Len(fsops) : fsops[i] \in {"exists"}

\* A request with a Range header for a.tif.ovr, which exists, answered 404
\* without any filesystem call
C22_Witness ==
    /\ req.endpoint = "cog"
    /\ req.name = N_a_tif_ovr
    /\ N_a_tif_ovr \in DOMAIN processed
    /\ req.range # None
    /\ resp.status = 404
    /\ fsops = <<>>

\* C23 as stated: the output a job is still writing is not observable: a
\* catalog listing or a range read interleaved with the jobs never returns a
\* layer, or bytes, of the output file of a job that has not completed
\* successfully.
C23_UnfinishedOutputNotObservable ==
    \A j \in 1..Len(jobs) :
        ~(jobs[j].st \in {"returned", "resp"} /\ jobs[j].err = "none") =>
            /\ req.endpoint = "layers" =>
                  \A i \in 1..Len(resp.layers) :
                      resp.layers[i].id # PathStem(JobOutput(j))
            /\ (req.endpoint = "cog" /\ req.name = JobOutput(j)) =>
                  resp.status \notin {200, 206}

\* C24 as stated: if a listing holds a layer of id X and DELETE /layers/X
\* then succeeds, nothing else happening in between, the next listing holds
\* no layer of id X and still holds every other layer of the first one.
C24_DeletedLayerLeavesCatalog ==
    [][(/\ req.endpoint # "delete"
        /\ req'.endpoint = "delete"
        /\ resp'.status = 200
        /\ req'.name \in LayerIds(processed)) =>
           /\ req'.name \notin LayerIds(processed')
           /\ (LayerIds(processed) \ {req'.name}) \subseteq LayerIds(processed')]_vars

----------------------------------------------------------------------------
(* The ellipse heuristic of convert_vector_to_geojson *)

MaxEllipseJobs == 2

\* the keywords of line 448; the two Korean words are written with one
\* stand-in element per character (str.lower() leaves them as they are)
CdKeywords ==
    {<<"c", "d">>,
     <<"r", "e", "s", "u", "l", "t">>,
     <<"c", "h", "a", "n", "g", "e">>,
     <<"U+ACB0", "U+ACFC">>,
     <<"U+BCC0", "U+D654">>,
     <<"c", "d", "_", "r", "e", "s", "u", "l", "t", "s">>}

\* lines 445-448: any(kw in file_lower or kw in orig_lower ...), where
\* file_lower is str(input_path).lower()
is_cd_layer(input_path, original_filename) ==
    LET file_lower == Lower(input_path)
        orig_lower == IF original_filename # None
                      THEN Lower(original_filename) ELSE <<>>
    IN  \E kw \in CdKeywords :
           Contains(file_lower, kw) \/ Contains(orig_lower, kw)

\* str(UPLOAD_DIR) and the separator
S_upload_dir ==
    <<"/", "a", "p", "p", "/", "u", "p", "l", "o", "a", "d", "s", "/">>

S_extracted == <<"/", "e", "x", "t", "r", "a", "c", "t", "e", "d", "/">>

\* two draws of str(uuid.uuid4()): one of digits only, one whose hexadecimal
\* digits happen to spell "cd"
U_digits == S_uuid_head \o <<"1">> \o S_uuid_tail \o <<"1">>

U_3fcd == <<"3", "f", "c", "d">> \o SubSeq(U_digits, 5, Len(U_digits))

UuidDraws == {U_digits, U_3fcd}

\* two directories tempfile.mkdtemp() may create
T_tmp_q7 == <<"/", "t", "m", "p", "/", "t", "m", "p", "q", "7", "w", "2", "x", "9", "k", "1">>

T_tmp_cd == <<"/", "t", "m", "p", "/", "t", "m", "p", "z", "c", "d", "4", "_", "8", "a", "0">>

TempDirs == {T_tmp_q7, T_tmp_cd}

\* the .shp file of the uploaded archive
M_parcels_shp == <<"p", "a", "r", "c", "e", "l", "s">> \o S_shp

ShpMembers == {M_parcels_shp}

N_CD_v_geojson == <<"C", "D", "_", "v">> \o S_geojson

N_Changes_json == <<"C", "h", "a", "n", "g", "e", "s">> \o S_json

EllipseNames == {N_v_geojson, N_CD_v_geojson, N_Changes_json, N_s_zip}

\* actual_input of process_file_sync, as the string convert_vector_to_geojson
\* lowers: the .shp found under the temporary directory for an archive,
\* input_path otherwise
ActualInput(kind, filename, uuid, temp_dir, member) ==
    IF EndsWith(Lower(filename), S_zip)
    THEN temp_dir \o S_extracted \o member
    ELSE IF kind = "upload"
    THEN S_upload_dir \o uuid \o S_underscore \o filename
    ELSE S_upload_dir \o filename

\* One vector job reaching convert_vector_to_geojson: the request kind, the
\* file name, the uuid drawn, and for an archive the temporary directory and
\* the .shp found in it
VectorJob ==
    /\ Len(jobs) < MaxEllipseJobs
    /\ \E kind \in {"upload", "local"}, filename \in EllipseNames,
          uuid \in UuidDraws, temp_dir \in TempDirs, member \in ShpMembers :
          LET zip == EndsWith(Lower(filename), S_zip)
              actual_input == ActualInput(kind, filename, uuid, temp_dir, member)
          IN  jobs' = Append(jobs,
                 [kind |-> kind, filename |-> filename,
                  file_id |-> IF kind = "upload" THEN uuid ELSE SubSeq(uuid, 1, 8),
                  member |-> IF zip THEN member ELSE None,
                  actual_input |-> actual_input,
                  ellipse |-> is_cd_layer(actual_input, filename)])
    /\ UNCHANGED <<processed, serveVars, incoming, queue, running, tempdirs>>

NextEllipse == VectorJob

SpecEllipse == Init /\ [][NextEllipse]_vars

\* C21 as stated: the ellipse transform is applied exactly when the
\* user-supplied file name holds one of the keywords, whatever the case of
\* its letters; so two jobs for the same file name and dataset get the same
\* decision, whatever their identifier, input path or temporary directory.
C21_EllipseDependsOnFilenameOnly ==
    /\ \A j \in 1..Len(jobs) :
          jobs[j].ellipse <=>
              \E kw \in CdKeywords : Contains(Lower(jobs[j].filename), kw)
    /\ \A j, k \in 1..Len(jobs) :
          (jobs[j].filename = jobs[k].filename /\ jobs[j].member = jobs[k].member)
              => jobs[j].ellipse = jobs[k].ellipse

=============================================================================
